---- MODULE Spec2Model ----
(***************************************************************************)
(* Model of book_converter/import_sr_cirilica.py: the Cyrillic-to-Latin     *)
(* mapper transliterate_to_latin and the ingestion routine import_words,    *)
(* together with the sqlite store it writes (tables words, sources and      *)
(* word_sources) and the transaction of its connection; and of the mapper's *)
(* duplicate cirilic_to_latin of book_converter/list_files.py.              *)
(*                                                                          *)
(* Characters are named in ASCII.  A Cyrillic letter is written "c:" plus   *)
(* its Latin value ("c:lj" is the one Cyrillic letter lje, "c:LJ" its       *)
(* uppercase form); the Latin letters with diacritics are written "d-"      *)
(* (d with stroke), "z^", "c^", "s^" (carons) and "c'" (acute), uppercase   *)
(* likewise.  A string is a sequence of characters.                         *)
(***************************************************************************)
EXTENDS Integers, Sequences, FiniteSets, TLC

VARIABLES
    pc,         \* position of the current import_words call
    file,       \* content of SOURCE_PATH: a sequence of raw lines
    name,       \* SOURCE_NAME
    exists,     \* SOURCE_PATH.exists()
    idx,        \* index of the next line the file iterator yields
    conn,       \* the sqlite connection: "none", "open" or "closed"
    fh,         \* the source file handle: "none", "open" or "closed"
    db,         \* the committed content of the store
    tx,         \* the store as the connection sees it (db plus pending writes)
    source_id,  \* local source_id (0 before it is fetched)
    total,      \* local counter
    inserted,   \* local counter
    skipped,    \* local counter
    raised,     \* the exception that left import_words, "none" if none
    stdout,     \* what the call printed
    db0,        \* history: the store before this run (or before the first of
                \* a chain of failed attempts on the same file and name)
    rerunOf,    \* history: "done"/"error" when this run repeats the previous
                \* run's file and name, and how that run ended; else "none"
    m_pc,       \* position of a call of a mapper taken alone: "idle", "loop"
                \* or "returned"
    m_fn,       \* the mapper called: "transliterate_to_latin",
                \* "cirilic_to_latin", or "none"
    m_word,     \* its argument word
    m_pos,      \* index of the next character "for char in word" yields
    m_result,   \* its local result: a list of strings in
                \* transliterate_to_latin, a string in cirilic_to_latin
    m_ret       \* the string it returned

mvars == <<m_pc, m_fn, m_word, m_pos, m_result, m_ret>>

vars == <<pc, file, name, exists, idx, conn, fh, db, tx, source_id,
          total, inserted, skipped, raised, stdout, db0, rerunOf,
          m_pc, m_fn, m_word, m_pos, m_result, m_ret>>

(***************************************************************************)
(* Bounds.                                                                  *)
(***************************************************************************)
\* Longest source file, in lines.
MaxLines == 3

\* batch_size of import_words, scaled down from the program's 5000 so that a
\* checkpoint commit happens inside a file of MaxLines lines.
BatchSize == 2

\* Longest word given to a mapper called alone, in characters.
MaxWordLen == 3

SP == " "
NL == "\n"
Whitespace == {SP, NL}

\* The raw lines a source file is made of: a whitespace-only line, a word
\* with blanks around it, the same word without them, and a second word
\* that holds a character outside the mapping table.
Lines ==
    { <<SP, NL>>,
      <<SP, "c:lj", "c:a", SP, NL>>,
      <<"c:lj", "c:a", NL>>,
      <<"c:M", "x", NL>> }

Files == UNION { [1..n -> Lines] : n \in 0..MaxLines }

SourceNames == {"A", "B"}

\* The second writer stops deleting once the sources table has used this id
\* (a source registered again gets a larger one).
MaxSourceId == Cardinality(SourceNames)

(***************************************************************************)
(* The mapper.                                                              *)
(***************************************************************************)
CYR_TO_LAT ==
    ( "c:a" :> <<"a">>  @@ "c:b" :> <<"b">>  @@ "c:v" :> <<"v">>  @@
      "c:g" :> <<"g">>  @@ "c:d" :> <<"d">>  @@ "c:d-" :> <<"d-">> @@
      "c:e" :> <<"e">>  @@ "c:z^" :> <<"z^">> @@ "c:z" :> <<"z">>  @@
      "c:i" :> <<"i">>  @@ "c:j" :> <<"j">>  @@ "c:k" :> <<"k">>  @@
      "c:l" :> <<"l">>  @@ "c:lj" :> <<"l", "j">> @@ "c:m" :> <<"m">> @@
      "c:n" :> <<"n">>  @@ "c:nj" :> <<"n", "j">> @@ "c:o" :> <<"o">> @@
      "c:p" :> <<"p">>  @@ "c:r" :> <<"r">>  @@ "c:s" :> <<"s">>  @@
      "c:t" :> <<"t">>  @@ "c:c'" :> <<"c'">> @@ "c:u" :> <<"u">>  @@
      "c:f" :> <<"f">>  @@ "c:h" :> <<"h">>  @@ "c:c" :> <<"c">>  @@
      "c:c^" :> <<"c^">> @@ "c:dz^" :> <<"d", "z^">> @@ "c:s^" :> <<"s^">> @@
      "c:A" :> <<"A">>  @@ "c:B" :> <<"B">>  @@ "c:V" :> <<"V">>  @@
      "c:G" :> <<"G">>  @@ "c:D" :> <<"D">>  @@ "c:D-" :> <<"D-">> @@
      "c:E" :> <<"E">>  @@ "c:Z^" :> <<"Z^">> @@ "c:Z" :> <<"Z">>  @@
      "c:I" :> <<"I">>  @@ "c:J" :> <<"J">>  @@ "c:K" :> <<"K">>  @@
      "c:L" :> <<"L">>  @@ "c:LJ" :> <<"L", "j">> @@ "c:M" :> <<"M">> @@
      "c:N" :> <<"N">>  @@ "c:NJ" :> <<"N", "j">> @@ "c:O" :> <<"O">> @@
      "c:P" :> <<"P">>  @@ "c:R" :> <<"R">>  @@ "c:S" :> <<"S">>  @@
      "c:T" :> <<"T">>  @@ "c:C'" :> <<"C'">> @@ "c:U" :> <<"U">>  @@
      "c:F" :> <<"F">>  @@ "c:H" :> <<"H">>  @@ "c:C" :> <<"C">>  @@
      "c:C^" :> <<"C^">> @@ "c:DZ^" :> <<"D", "z^">> @@ "c:S^" :> <<"S^">> )

\* Get, mutated to CYR_TO_LAT.get(char, ""): a character the table lacks is
\* dropped.
GetDropsUnmapped(char) ==
    IF char \in DOMAIN CYR_TO_LAT THEN CYR_TO_LAT[char] ELSE <<>>

\* CYR_TO_LAT.get(char, char)
Get(char) == IF char \in DOMAIN CYR_TO_LAT THEN CYR_TO_LAT[char] ELSE <<char>>

RECURSIVE transliterate_to_latin(_)
transliterate_to_latin(word) ==
    IF word = <<>> THEN <<>>
    ELSE Get(Head(word)) \o transliterate_to_latin(Tail(word))

\* "".join(parts)
RECURSIVE join(_)
join(parts) ==
    IF parts = <<>> THEN <<>> ELSE Head(parts) \o join(Tail(parts))

\* The table of list_files.py, a second copy of the mapping.
list_files_CYR_TO_LAT ==
    ( "c:a" :> <<"a">> @@ "c:b" :> <<"b">> @@ "c:v" :> <<"v">> @@
      "c:g" :> <<"g">> @@ "c:d" :> <<"d">> @@ "c:d-" :> <<"d-">> @@
      "c:e" :> <<"e">> @@ "c:z^" :> <<"z^">> @@ "c:z" :> <<"z">> @@
      "c:i" :> <<"i">> @@ "c:j" :> <<"j">> @@ "c:k" :> <<"k">> @@
      "c:l" :> <<"l">> @@ "c:lj" :> <<"l", "j">> @@ "c:m" :> <<"m">> @@
      "c:n" :> <<"n">> @@ "c:nj" :> <<"n", "j">> @@ "c:o" :> <<"o">> @@
      "c:p" :> <<"p">> @@ "c:r" :> <<"r">> @@ "c:s" :> <<"s">> @@
      "c:t" :> <<"t">> @@ "c:c'" :> <<"c'">> @@ "c:u" :> <<"u">> @@
      "c:f" :> <<"f">> @@ "c:h" :> <<"h">> @@ "c:c" :> <<"c">> @@
      "c:c^" :> <<"c^">> @@ "c:dz^" :> <<"d", "z^">> @@ "c:s^" :> <<"s^">> @@
      "c:A" :> <<"A">> @@ "c:B" :> <<"B">> @@ "c:V" :> <<"V">> @@
      "c:G" :> <<"G">> @@ "c:D" :> <<"D">> @@ "c:D-" :> <<"D-">> @@
      "c:E" :> <<"E">> @@ "c:Z^" :> <<"Z^">> @@ "c:Z" :> <<"Z">> @@
      "c:I" :> <<"I">> @@ "c:J" :> <<"J">> @@ "c:K" :> <<"K">> @@
      "c:L" :> <<"L">> @@ "c:LJ" :> <<"L", "j">> @@ "c:M" :> <<"M">> @@
      "c:N" :> <<"N">> @@ "c:NJ" :> <<"N", "j">> @@ "c:O" :> <<"O">> @@
      "c:P" :> <<"P">> @@ "c:R" :> <<"R">> @@ "c:S" :> <<"S">> @@
      "c:T" :> <<"T">> @@ "c:C'" :> <<"C'">> @@ "c:U" :> <<"U">> @@
      "c:F" :> <<"F">> @@ "c:H" :> <<"H">> @@ "c:C" :> <<"C">> @@
      "c:C^" :> <<"C^">> @@ "c:DZ^" :> <<"D", "z^">> @@ "c:S^" :> <<"S^">> )

\* CYR_TO_LAT.get(c, c) of list_files.py
list_files_Get(c) ==
    IF c \in DOMAIN list_files_CYR_TO_LAT THEN list_files_CYR_TO_LAT[c]
    ELSE <<c>>

\* The mappers, and the words one is called with when taken alone: every
\* word of up to MaxWordLen characters over WordChars (letters the table
\* maps to one and to two Latin letters, lowercase and uppercase, and
\* characters it lacks), and every one-character word over the keys of the
\* table and some characters outside it.
MapperFns == {"transliterate_to_latin", "cirilic_to_latin"}

WordChars == {"c:lj", "c:DZ^", "c:a", "c:S^", "x", "j"}

OutsideChars == {"x", "j", "1", SP}

SeqsUpTo(S, n) == UNION { [1..k -> S] : k \in 0..n }

MapperWords ==
    SeqsUpTo(WordChars, MaxWordLen)
        \cup { <<c>> : c \in DOMAIN CYR_TO_LAT \cup OutsideChars }

(***************************************************************************)
(* str.strip(): drop the leading and the trailing whitespace.               *)
(***************************************************************************)
RECURSIVE LStrip(_)
LStrip(s) ==
    IF s # <<>> /\ Head(s) \in Whitespace THEN LStrip(Tail(s)) ELSE s

RECURSIVE RStrip(_)
RStrip(s) ==
    IF s # <<>> /\ s[Len(s)] \in Whitespace
    THEN RStrip(SubSeq(s, 1, Len(s) - 1))
    ELSE s

Strip(line) == RStrip(LStrip(line))

(***************************************************************************)
(* The store.                                                               *)
(***************************************************************************)
EmptyStore == [words |-> {}, sources |-> {}, word_sources |-> {}]

Ids(rows) == { r.id : r \in rows }

\* The rowid sqlite gives a row inserted without an id: one more than the
\* largest in the table.
NextId(rows) ==
    IF rows = {} THEN 1
    ELSE (CHOOSE i \in Ids(rows) : \A j \in Ids(rows) : j <= i) + 1

\* words.sr_cirilica UNIQUE
WordsUniqueViolated(t, cyr) == \E r \in t.words : r.sr_cirilica = cyr

\* sources.file_name UNIQUE
SourcesUniqueViolated(t, n) == \E r \in t.sources : r.file_name = n

\* word_sources.word_id REFERENCES words(id), source_id REFERENCES sources(id)
ForeignKeyViolated(t, word_id, sid) ==
    word_id \notin Ids(t.words) \/ sid \notin Ids(t.sources)

\* PRAGMA foreign_keys=ON, mutated: the pragma is missing
ForeignKeysOff == FALSE

\* PRAGMA foreign_keys=ON
ForeignKeysOn == TRUE

(***************************************************************************)
(* The statements import_words executes.  A statement gives the exception  *)
(* it raises ("none" if none), the store after it and the cursor's          *)
(* lastrowid.                                                               *)
(***************************************************************************)
\* InsertOrIgnoreSource, mutated: INSERT OR REPLACE, which deletes the row
\* of that name and inserts a new one under a new rowid.
InsertOrReplaceSource(t, n) ==
    [t EXCEPT !.sources = { r \in @ : r.file_name # n }
                            \cup {[id |-> NextId(t.sources), file_name |-> n]}]

\* INSERT OR IGNORE INTO sources (file_name) VALUES (?)
InsertOrIgnoreSource(t, n) ==
    IF SourcesUniqueViolated(t, n) THEN t
    ELSE [t EXCEPT !.sources = @ \cup {[id |-> NextId(t.sources), file_name |-> n]}]

\* SELECT id FROM sources WHERE file_name = ?  ... fetchone()[0]
SelectSourceId(t, n) == (CHOOSE r \in t.sources : r.file_name = n).id

\* InsertWord, mutated: INSERT OR REPLACE, which deletes the row of that
\* sr_cirilica and inserts a new one under a new rowid.
InsertOrReplaceWord(t, cyr, lat) ==
    LET id == NextId(t.words)
    IN [err |-> "none",
        t |-> [t EXCEPT !.words = { r \in @ : r.sr_cirilica # cyr } \cup
                  {[id |-> id, sr_cirilica |-> cyr, sr_latinica |-> lat]}],
        lastrowid |-> id]

\* INSERT INTO words (sr_cirilica, sr_latinica) VALUES (?, ?)
InsertWord(t, cyr, lat) ==
    IF WordsUniqueViolated(t, cyr)
    THEN [err |-> "IntegrityError", t |-> t, lastrowid |-> 0]
    ELSE LET id == NextId(t.words)
         IN [err |-> "none",
             t |-> [t EXCEPT !.words = @ \cup
                       {[id |-> id, sr_cirilica |-> cyr, sr_latinica |-> lat]}],
             lastrowid |-> id]

\* INSERT INTO word_sources (word_id, source_id) VALUES (?, ?)
InsertWordSource(t, word_id, sid) ==
    IF ForeignKeysOn /\ ForeignKeyViolated(t, word_id, sid)
    THEN [err |-> "IntegrityError", t |-> t]
    ELSE [err |-> "none",
          t |-> [t EXCEPT !.word_sources = @ \cup
                    {[word_id |-> word_id, source_id |-> sid]}]]

\* ProcessWord, mutated: the except clause does not count (pass instead of
\* skipped += 1).
ProcessWordNoSkipCount(t, sid, word_cyr, c) ==
    LET word_lat == transliterate_to_latin(word_cyr)
        w == InsertWord(t, word_cyr, word_lat)
        ws == InsertWordSource(w.t, w.lastrowid, sid)
    IN  IF w.err = "IntegrityError"
        THEN [tx |-> w.t, total |-> c.total + 1,
              inserted |-> c.inserted, skipped |-> c.skipped]
        ELSE IF ws.err = "IntegrityError"
        THEN [tx |-> ws.t, total |-> c.total + 1,
              inserted |-> c.inserted, skipped |-> c.skipped]
        ELSE [tx |-> ws.t, total |-> c.total + 1,
              inserted |-> c.inserted + 1, skipped |-> c.skipped]

\* ProcessWord, mutated: inserted += 1 stands before the try block, so a
\* duplicate is counted as inserted and as skipped.
ProcessWordCountBoth(t, sid, word_cyr, c) ==
    LET word_lat == transliterate_to_latin(word_cyr)
        w == InsertWord(t, word_cyr, word_lat)
        ws == InsertWordSource(w.t, w.lastrowid, sid)
    IN  IF w.err = "IntegrityError"
        THEN [tx |-> w.t, total |-> c.total + 1,
              inserted |-> c.inserted + 1, skipped |-> c.skipped + 1]
        ELSE IF ws.err = "IntegrityError"
        THEN [tx |-> ws.t, total |-> c.total + 1,
              inserted |-> c.inserted + 1, skipped |-> c.skipped + 1]
        ELSE [tx |-> ws.t, total |-> c.total + 1,
              inserted |-> c.inserted + 1, skipped |-> c.skipped]

\* ProcessWord, mutated: the except clause links the word that already
\* exists to the current source.
ProcessWordLinkOnSkip(t, sid, word_cyr, c) ==
    LET word_lat == transliterate_to_latin(word_cyr)
        w == InsertWord(t, word_cyr, word_lat)
        ws == InsertWordSource(w.t, w.lastrowid, sid)
        old == CHOOSE r \in t.words : r.sr_cirilica = word_cyr
    IN  IF w.err = "IntegrityError"
        THEN [tx |-> InsertWordSource(t, old.id, sid).t, total |-> c.total + 1,
              inserted |-> c.inserted, skipped |-> c.skipped + 1]
        ELSE IF ws.err = "IntegrityError"
        THEN [tx |-> ws.t, total |-> c.total + 1,
              inserted |-> c.inserted, skipped |-> c.skipped + 1]
        ELSE [tx |-> ws.t, total |-> c.total + 1,
              inserted |-> c.inserted + 1, skipped |-> c.skipped]

\* The body of the loop for one non-empty word_cyr, up to the except clause:
\* c holds the counters, the result the counters and the store after it.
ProcessWord(t, sid, word_cyr, c) ==
    LET word_lat == transliterate_to_latin(word_cyr)
        w == InsertWord(t, word_cyr, word_lat)
        ws == InsertWordSource(w.t, w.lastrowid, sid)
    IN  IF w.err = "IntegrityError"
        THEN [tx |-> w.t, total |-> c.total + 1,
              inserted |-> c.inserted, skipped |-> c.skipped + 1]
        ELSE IF ws.err = "IntegrityError"
        THEN [tx |-> ws.t, total |-> c.total + 1,
              inserted |-> c.inserted, skipped |-> c.skipped + 1]
        ELSE [tx |-> ws.t, total |-> c.total + 1,
              inserted |-> c.inserted + 1, skipped |-> c.skipped]

\* AtCheckpoint, mutated: the checkpoint commit of the loop is missing.
AtCheckpointNever(n) == FALSE

\* if total % batch_size == 0
AtCheckpoint(n) == n % BatchSize = 0

Counters == [total |-> total, inserted |-> inserted, skipped |-> skipped]

Summary ==
    [kind |-> "summary", source |-> name, source_id |-> source_id,
     total |-> total, inserted |-> inserted, skipped |-> skipped]

(***************************************************************************)
(* Init: an empty store and no call made yet.                               *)
(***************************************************************************)
Init ==
    /\ pc = "idle"
    /\ file = <<>>
    /\ name = "A"
    /\ exists = FALSE
    /\ idx = 1
    /\ conn = "none"
    /\ fh = "none"
    /\ db = EmptyStore
    /\ tx = EmptyStore
    /\ source_id = 0
    /\ total = 0
    /\ inserted = 0
    /\ skipped = 0
    /\ raised = "none"
    /\ stdout = <<>>
    /\ db0 = EmptyStore
    /\ rerunOf = "none"
    /\ m_pc = "idle"
    /\ m_fn = "none"
    /\ m_word = <<>>
    /\ m_pos = 1
    /\ m_result = <<>>
    /\ m_ret = <<>>

Ended == {"done", "error", "notfound"}

(***************************************************************************)
(* How the script is run.  Start: on a source file f registered under the  *)
(* name n, which exists or not.  Rerun: once more on the file and the name  *)
(* of the run that just ended.  Exit: the process is gone and with it the   *)
(* locals of the call.  A new process has no pending writes.                *)
(***************************************************************************)
Start ==
    /\ pc = "idle"
    /\ \E f \in Files, n \in SourceNames, e \in BOOLEAN :
          /\ ~e => f = <<>>
          /\ file' = f
          /\ name' = n
          /\ exists' = e
    /\ pc' = "check"
    /\ db0' = db
    /\ UNCHANGED <<idx, conn, fh, db, tx, source_id, total, inserted, skipped,
                   raised, stdout, rerunOf>>
    /\ UNCHANGED mvars

Rerun ==
    /\ pc \in {"done", "error"}
    /\ rerunOf' = pc
    /\ db0' = IF pc = "error" THEN db0 ELSE db
    /\ pc' = "check"
    /\ idx' = 1
    /\ conn' = "none"
    /\ fh' = "none"
    /\ tx' = db
    /\ source_id' = 0
    /\ total' = 0
    /\ inserted' = 0
    /\ skipped' = 0
    /\ raised' = "none"
    /\ stdout' = <<>>
    /\ UNCHANGED <<file, name, exists, db>>
    /\ UNCHANGED mvars

Exit ==
    /\ pc \in Ended
    /\ pc' = "idle"
    /\ file' = <<>>
    /\ name' = "A"
    /\ exists' = FALSE
    /\ idx' = 1
    /\ conn' = "none"
    /\ fh' = "none"
    /\ tx' = db
    /\ source_id' = 0
    /\ total' = 0
    /\ inserted' = 0
    /\ skipped' = 0
    /\ raised' = "none"
    /\ stdout' = <<>>
    /\ db0' = db
    /\ rerunOf' = "none"
    /\ UNCHANGED db
    /\ UNCHANGED mvars

\* NotFound, mutated: the return is missing, so the call prints the error
\* and goes on to open the connection.
NotFoundFallThrough ==
    /\ pc = "check"
    /\ ~exists
    /\ stdout' = Append(stdout, [kind |-> "error", text |-> "Source file not found"])
    /\ conn' = "open"
    /\ pc' = "register"
    /\ UNCHANGED <<file, name, exists, idx, fh, db, tx, source_id,
                   total, inserted, skipped, raised, db0, rerunOf>>
    /\ UNCHANGED mvars

\* if not SOURCE_PATH.exists(): print(...); return
NotFound ==
    /\ pc = "check"
    /\ ~exists
    /\ stdout' = Append(stdout, [kind |-> "error", text |-> "Source file not found"])
    /\ pc' = "notfound"
    /\ UNCHANGED <<file, name, exists, idx, conn, fh, db, tx, source_id,
                   total, inserted, skipped, raised, db0, rerunOf>>
    /\ UNCHANGED mvars

\* conn = sqlite3.connect(DB_PATH); the two PRAGMAs; cursor = conn.cursor()
Connect ==
    /\ pc = "check"
    /\ exists
    /\ conn' = "open"
    /\ pc' = "register"
    /\ UNCHANGED <<file, name, exists, idx, fh, db, tx, source_id,
                   total, inserted, skipped, raised, stdout, db0, rerunOf>>
    /\ UNCHANGED mvars

\* INSERT OR IGNORE the source row, conn.commit(), SELECT its id
Register ==
    /\ pc = "register"
    /\ LET t == InsertOrIgnoreSource(tx, name)
       IN  /\ tx' = t
           /\ db' = t
           /\ source_id' = SelectSourceId(t, name)
    /\ pc' = "open"
    /\ UNCHANGED <<file, name, exists, idx, conn, fh,
                   total, inserted, skipped, raised, stdout, db0, rerunOf>>
    /\ UNCHANGED mvars

\* total = 0; inserted = 0; skipped = 0; with open(SOURCE_PATH, ...) as f
OpenFile ==
    /\ pc = "open"
    /\ total' = 0
    /\ inserted' = 0
    /\ skipped' = 0
    /\ fh' = "open"
    /\ pc' = "loop"
    /\ UNCHANGED <<file, name, exists, idx, conn, db, tx, source_id,
                   raised, stdout, db0, rerunOf>>
    /\ UNCHANGED mvars

\* ProcessLine, mutated: the test "if not word_cyr: continue" is missing, so
\* an empty line is counted and inserted like a word.
ProcessLineCountsBlank ==
    /\ pc = "loop"
    /\ idx <= Len(file)
    /\ idx' = idx + 1
    /\ LET word_cyr == Strip(file[idx])
           r == ProcessWord(tx, source_id, word_cyr, Counters)
       IN  /\ tx' = r.tx
           /\ total' = r.total
           /\ inserted' = r.inserted
           /\ skipped' = r.skipped
           /\ IF AtCheckpoint(r.total)
              THEN /\ db' = r.tx
                   /\ stdout' = Append(stdout,
                          [kind |-> "progress", total |-> r.total])
              ELSE UNCHANGED <<db, stdout>>
    /\ UNCHANGED <<pc, file, name, exists, conn, fh, source_id, raised,
                   db0, rerunOf>>
    /\ UNCHANGED mvars

\* One pass of "for line in f": strip, skip an empty line, else count the
\* word, insert it and its source link, and commit at a checkpoint.
ProcessLine ==
    /\ pc = "loop"
    /\ idx <= Len(file)
    /\ idx' = idx + 1
    /\ LET word_cyr == Strip(file[idx])
       IN  IF word_cyr = <<>>
           THEN UNCHANGED <<db, tx, total, inserted, skipped, stdout>>
           ELSE LET r == ProcessWord(tx, source_id, word_cyr, Counters)
                IN  /\ tx' = r.tx
                    /\ total' = r.total
                    /\ inserted' = r.inserted
                    /\ skipped' = r.skipped
                    /\ IF AtCheckpoint(r.total)
                       THEN /\ db' = r.tx
                            /\ stdout' = Append(stdout,
                                   [kind |-> "progress", total |-> r.total])
                       ELSE UNCHANGED <<db, stdout>>
    /\ UNCHANGED <<pc, file, name, exists, conn, fh, source_id, raised,
                   db0, rerunOf>>
    /\ UNCHANGED mvars

\* The file is exhausted: the with block closes it, then conn.commit(),
\* conn.close() and the summary.
Finish ==
    /\ pc = "loop"
    /\ idx > Len(file)
    /\ fh' = "closed"
    /\ db' = tx
    /\ conn' = "closed"
    /\ stdout' = Append(stdout, Summary)
    /\ pc' = "done"
    /\ UNCHANGED <<file, name, exists, idx, tx, source_id,
                   total, inserted, skipped, raised, db0, rerunOf>>
    /\ UNCHANGED mvars

\* An exception other than IntegrityError leaves import_words: a storage
\* error of a statement or a commit (sqlite3.OperationalError, which stands
\* here for the others too), a read error of the file iterator, or an
\* interrupt.  Nothing catches it; the with
\* block closes the file if it is open; the connection is not closed, and
\* what it had not committed is never committed.
Fail ==
    /\ pc \in {"register", "loop"}
    /\ raised' = "OperationalError"
    /\ fh' = IF fh = "open" THEN "closed" ELSE fh
    /\ tx' = db
    /\ pc' = "error"
    /\ UNCHANGED <<file, name, exists, idx, conn, db, source_id,
                   total, inserted, skipped, stdout, db0, rerunOf>>
    /\ UNCHANGED mvars

\* The same, raised by an INSERT of the loop: the word is already counted
\* in total.
FailInInsert ==
    /\ pc = "loop"
    /\ idx <= Len(file)
    /\ Strip(file[idx]) # <<>>
    /\ total' = total + 1
    /\ raised' = "OperationalError"
    /\ fh' = "closed"
    /\ tx' = db
    /\ pc' = "error"
    /\ UNCHANGED <<file, name, exists, idx, conn, db, source_id,
                   inserted, skipped, stdout, db0, rerunOf>>
    /\ UNCHANGED mvars

\* The same, raised by the conn.commit() of a checkpoint: the line is
\* counted and its writes, with those of the lines since the last commit,
\* are pending when the exception leaves the call.
FailInCommit ==
    /\ pc = "loop"
    /\ idx <= Len(file)
    /\ Strip(file[idx]) # <<>>
    /\ LET r == ProcessWord(tx, source_id, Strip(file[idx]), Counters)
       IN  /\ AtCheckpoint(r.total)
           /\ total' = r.total
           /\ inserted' = r.inserted
           /\ skipped' = r.skipped
    /\ raised' = "OperationalError"
    /\ fh' = "closed"
    /\ tx' = db
    /\ pc' = "error"
    /\ UNCHANGED <<file, name, exists, idx, conn, db, source_id,
                   stdout, db0, rerunOf>>
    /\ UNCHANGED mvars

\* The steps of one call.
RunStep ==
    \/ NotFound
    \/ Connect
    \/ Register
    \/ OpenFile
    \/ ProcessLine
    \/ Finish

Next ==
    \/ Start
    \/ Rerun
    \/ Exit
    \/ NotFound
    \/ Connect
    \/ Register
    \/ OpenFile
    \/ ProcessLine
    \/ Finish
    \/ Fail
    \/ FailInInsert
    \/ FailInCommit

Spec == Init /\ [][Next]_vars

(***************************************************************************)
(* A second writer.  Between two transactions of import_words (it holds no *)
(* pending write) another connection, which enforces the foreign keys too,  *)
(* deletes the sources row of the running import, which no word_sources    *)
(* row refers to yet.  import_words keeps the source_id it fetched.         *)
(***************************************************************************)
ExternalDeleteSource ==
    /\ pc = "loop"
    /\ tx = db
    /\ NextId(db.sources) <= MaxSourceId
    /\ \E r \in db.sources :
          /\ r.id = source_id
          /\ \A l \in db.word_sources : l.source_id # r.id
          /\ db' = [db EXCEPT !.sources = @ \ {r}]
          /\ tx' = [tx EXCEPT !.sources = @ \ {r}]
    /\ UNCHANGED <<pc, file, name, exists, idx, conn, fh, source_id,
                   total, inserted, skipped, raised, stdout, db0, rerunOf>>
    /\ UNCHANGED mvars

NextFault ==
    \/ Start
    \/ Rerun
    \/ Exit
    \/ NotFound
    \/ Connect
    \/ Register
    \/ OpenFile
    \/ ProcessLine
    \/ Finish
    \/ Fail
    \/ FailInInsert
    \/ FailInCommit
    \/ ExternalDeleteSource

SpecFault == Init /\ [][NextFault]_vars

(***************************************************************************)
(* A mapper taken alone: one call of transliterate_to_latin or of           *)
(* cirilic_to_latin on a word, a step per pass of its loop and one for its  *)
(* return.  No import runs.                                                 *)
(***************************************************************************)
InitMapper ==
    /\ pc = "idle"
    /\ file = <<>>
    /\ name = "A"
    /\ exists = FALSE
    /\ idx = 1
    /\ conn = "none"
    /\ fh = "none"
    /\ db = EmptyStore
    /\ tx = EmptyStore
    /\ source_id = 0
    /\ total = 0
    /\ inserted = 0
    /\ skipped = 0
    /\ raised = "none"
    /\ stdout = <<>>
    /\ db0 = EmptyStore
    /\ rerunOf = "none"
    /\ m_pc = "loop"
    /\ m_fn \in MapperFns
    /\ m_word \in MapperWords
    /\ m_pos = 1
    /\ m_result = <<>>
    /\ m_ret = <<>>

\* transliterate_to_latin: result.append(CYR_TO_LAT.get(char, char))
TransliterateAppend ==
    /\ m_pc = "loop"
    /\ m_fn = "transliterate_to_latin"
    /\ m_pos <= Len(m_word)
    /\ m_result' = Append(m_result, Get(m_word[m_pos]))
    /\ m_pos' = m_pos + 1
    /\ UNCHANGED <<m_pc, m_fn, m_word, m_ret>>
    /\ UNCHANGED <<pc, file, name, exists, idx, conn, fh, db, tx, source_id,
                   total, inserted, skipped, raised, stdout, db0, rerunOf>>

\* transliterate_to_latin: return "".join(result)
TransliterateReturn ==
    /\ m_pc = "loop"
    /\ m_fn = "transliterate_to_latin"
    /\ m_pos > Len(m_word)
    /\ m_ret' = join(m_result)
    /\ m_pc' = "returned"
    /\ UNCHANGED <<m_fn, m_word, m_pos, m_result>>
    /\ UNCHANGED <<pc, file, name, exists, idx, conn, fh, db, tx, source_id,
                   total, inserted, skipped, raised, stdout, db0, rerunOf>>

\* cirilic_to_latin: result += CYR_TO_LAT.get(c, c)
CirilicConcat ==
    /\ m_pc = "loop"
    /\ m_fn = "cirilic_to_latin"
    /\ m_pos <= Len(m_word)
    /\ m_result' = m_result \o list_files_Get(m_word[m_pos])
    /\ m_pos' = m_pos + 1
    /\ UNCHANGED <<m_pc, m_fn, m_word, m_ret>>
    /\ UNCHANGED <<pc, file, name, exists, idx, conn, fh, db, tx, source_id,
                   total, inserted, skipped, raised, stdout, db0, rerunOf>>

\* cirilic_to_latin: return result
CirilicReturn ==
    /\ m_pc = "loop"
    /\ m_fn = "cirilic_to_latin"
    /\ m_pos > Len(m_word)
    /\ m_ret' = m_result
    /\ m_pc' = "returned"
    /\ UNCHANGED <<m_fn, m_word, m_pos, m_result>>
    /\ UNCHANGED <<pc, file, name, exists, idx, conn, fh, db, tx, source_id,
                   total, inserted, skipped, raised, stdout, db0, rerunOf>>

NextMapper ==
    \/ TransliterateAppend
    \/ TransliterateReturn
    \/ CirilicConcat
    \/ CirilicReturn

SpecMapper == InitMapper /\ [][NextMapper]_vars

(***************************************************************************)
(* The shape of the state.                                                  *)
(***************************************************************************)
StoreOK(t) ==
    /\ DOMAIN t = {"words", "sources", "word_sources"}
    /\ \A r \in t.words :
          /\ r.id \in Nat \ {0}
          /\ r.sr_cirilica # <<>>
          /\ r.sr_latinica = transliterate_to_latin(r.sr_cirilica)
    /\ \A r \in t.sources : r.id \in Nat \ {0} /\ r.file_name \in SourceNames
    /\ \A l \in t.word_sources : l.word_id \in Nat \ {0} /\ l.source_id \in Nat \ {0}

TypeOK ==
    /\ pc \in {"idle", "check", "register", "open", "loop"} \cup Ended
    /\ file \in Files
    /\ name \in SourceNames
    /\ exists \in BOOLEAN
    /\ idx \in 1..(Len(file) + 1)
    /\ conn \in {"none", "open", "closed"}
    /\ fh \in {"none", "open", "closed"}
    /\ StoreOK(db)
    /\ StoreOK(tx)
    /\ StoreOK(db0)
    /\ source_id \in Nat
    /\ total \in 0..Len(file)
    /\ inserted \in 0..total
    /\ skipped \in 0..total
    /\ raised \in {"none", "OperationalError"}
    /\ Len(stdout) <= total + 1
    /\ m_pc \in {"idle", "loop", "returned"}
    /\ m_fn \in MapperFns \cup {"none"}
    /\ m_word \in MapperWords
    /\ m_pos \in 1..(Len(m_word) + 1)
    /\ Len(m_result) <= 2 * Len(m_word)
    /\ Len(m_ret) <= 2 * Len(m_word)

(***************************************************************************)
(* Vocabulary of the properties.                                            *)
(***************************************************************************)
\* The distinct non-empty trimmed lines of a file.
FileWords(f) == { Strip(f[i]) : i \in 1..Len(f) } \ {<<>>}

\* The rows of a words table that hold the word cyr.
RowsOf(rows, cyr) == { r \in rows : r.sr_cirilica = cyr }

\* No two rows of a words table hold the same sr_cirilica.
UniqueCyr(rows) == \A r1, r2 \in rows : r1.sr_cirilica = r2.sr_cirilica => r1 = r2

\* The word_sources rows of a store for a word id.
LinksOf(t, word_id) == { l \in t.word_sources : l.word_id = word_id }

\* The names of the sources recorded for a word id.
SourceNamesOf(t, word_id) ==
    { r.file_name : r \in { x \in t.sources :
                             \E l \in LinksOf(t, word_id) : l.source_id = x.id } }

\* The words table one uninterrupted pass over the lines i.. of f leaves,
\* starting from the table rows: each word not yet there is appended under
\* the next id, with its transliteration.
RECURSIVE WordsAfterImport(_, _, _)
WordsAfterImport(rows, f, i) ==
    IF i > Len(f) THEN rows
    ELSE LET cyr == Strip(f[i])
         IN  IF cyr = <<>> \/ RowsOf(rows, cyr) # {}
             THEN WordsAfterImport(rows, f, i + 1)
             ELSE WordsAfterImport(
                      rows \cup {[id |-> NextId(rows), sr_cirilica |-> cyr,
                                  sr_latinica |-> transliterate_to_latin(cyr)]},
                      f, i + 1)

\* Every word_sources row of a store refers to a word and to a source of it.
Referential(t) ==
    \A l \in t.word_sources :
        l.word_id \in Ids(t.words) /\ l.source_id \in Ids(t.sources)

\* The summaries printed so far.
Summaries == { stdout[i] : i \in { j \in 1..Len(stdout) : stdout[j].kind = "summary" } }

(***************************************************************************)
(* C1.  Between two lines of the loop and when the summary is printed,      *)
(* total = inserted + skipped, and the summary prints such counters; a      *)
(* line that is counted is counted once, as inserted or as skipped, never   *)
(* as both.                                                                 *)
(***************************************************************************)
C1_CountInvariant ==
    /\ [](/\ pc \in {"loop", "done"} => total = inserted + skipped
          /\ \A m \in Summaries : m.total = m.inserted + m.skipped)
    /\ [][pc = "loop" /\ pc' \in {"loop", "done"} =>
            /\ inserted' - inserted \in {0, 1}
            /\ skipped' - skipped \in {0, 1}
            /\ (inserted' - inserted) + (skipped' - skipped) = total' - total]_vars

\* A completed run that inserted a word and skipped another, summary printed.
C1_Witness ==
    /\ pc = "done"
    /\ inserted >= 1
    /\ skipped >= 1
    /\ Summaries # {}

(***************************************************************************)
(* C2.  A run that repeats, right after it, a completed run on the same     *)
(* file and source name ends with inserted = 0 and skipped = total, and     *)
(* leaves the three tables as the first run left them.                      *)
(***************************************************************************)
C2_SecondRunIdempotent ==
    (pc = "done" /\ rerunOf = "done") =>
        /\ inserted = 0
        /\ skipped = total
        /\ db = db0

\* A second run over a file of at least two words, one of them twice.
C2_Witness ==
    /\ pc = "done"
    /\ rerunOf = "done"
    /\ total = 3
    /\ Cardinality(db.words) = 2

(***************************************************************************)
(* C3.  No two rows of words hold the same sr_cirilica, committed or        *)
(* pending, and every row the table held before a run is in it unchanged    *)
(* (same id, sr_cirilica and sr_latinica) during and after the run, however *)
(* the run ends.                                                            *)
(***************************************************************************)
C3_WordsUniqueAndKept ==
    /\ UniqueCyr(db.words)
    /\ UniqueCyr(tx.words)
    /\ db0.words \subseteq db.words
    /\ db0.words \subseteq tx.words

\* A run has met again, and skipped, a word the store held before it.
C3_Witness ==
    /\ pc \in Ended
    /\ skipped >= 1
    /\ \E r \in db0.words : r.sr_cirilica \in FileWords(file) /\ r \in db.words

(***************************************************************************)
(* C4.  A run that ends after one or more interrupted attempts on the same  *)
(* file and source name leaves the words table that one uninterrupted run   *)
(* from the store before the first attempt leaves: every distinct non-empty *)
(* trimmed line of the file is there exactly once.                          *)
(***************************************************************************)
C4_RerunAfterInterrupt ==
    (pc = "done" /\ rerunOf = "error") =>
        /\ db.words = WordsAfterImport(db0.words, file, 1)
        /\ \A cyr \in FileWords(file) : Cardinality(RowsOf(db.words, cyr)) = 1

\* The interrupted attempt had committed one of the file's two new words at
\* a checkpoint: the re-run skipped it and inserted the other.
C4_Witness ==
    /\ pc = "done"
    /\ rerunOf = "error"
    /\ db0.words = {}
    /\ Cardinality(db.words) = 2
    /\ inserted = 1
    /\ skipped >= 1

(***************************************************************************)
(* C5.  A word_sources row is written only by the step that newly inserts   *)
(* its Word, and links that Word to the source of the running import; a     *)
(* step that counts a line as skipped writes none.  Hence every Word has    *)
(* one row and one word_sources row, and a Word the store held before a     *)
(* run keeps exactly the sources it had, also when the run's file holds     *)
(* the word and is registered under another name.                           *)
(***************************************************************************)
C5_LinkOnlyOnInsert ==
    /\ [](/\ \A r \in db.words :
                /\ Cardinality(RowsOf(db.words, r.sr_cirilica)) = 1
                /\ Cardinality(LinksOf(db, r.id)) = 1
          /\ \A r \in db0.words : LinksOf(tx, r.id) = LinksOf(db0, r.id)
          /\ \A r \in db0.words : LinksOf(db, r.id) = LinksOf(db0, r.id))
    /\ [][/\ \A l \in tx'.word_sources \ tx.word_sources :
                /\ l.source_id = source_id
                /\ inserted' = inserted + 1
                /\ \E r \in tx'.words \ tx.words : r.id = l.word_id
          /\ (pc = "loop" /\ skipped' = skipped + 1) =>
                tx'.word_sources \subseteq tx.word_sources]_vars

\* Source A was ingested, then source B whose file holds a word of A: the
\* run on B has skipped it and its only recorded source is A.
C5_Witness ==
    /\ pc = "done"
    /\ name = "B"
    /\ skipped >= 1
    /\ \E r \in db.words :
          /\ r.sr_cirilica \in FileWords(file)
          /\ Cardinality(RowsOf(db.words, r.sr_cirilica)) = 1
          /\ SourceNamesOf(db, r.id) = {"A"}

(***************************************************************************)
(* C6.  Every word_sources row, committed or pending, refers to a word id   *)
(* of words and to a source id of sources, whatever runs completed or were  *)
(* aborted, and also when a second writer removes the running import's      *)
(* source row.                                                              *)
(***************************************************************************)
C6_ReferentialIntegrity == Referential(db) /\ Referential(tx)

\* A run was aborted after a checkpoint: the store holds committed links and
\* the run had counted more inserts than the store kept.
C6_Witness ==
    /\ pc = "error"
    /\ db.word_sources # {}
    /\ inserted > Cardinality(db.words \ db0.words)

(***************************************************************************)
(* C7.  The step that registers the source commits the sources row alone:   *)
(* after it the committed store holds the row (source_id, SOURCE_NAME), no  *)
(* write is pending and words and word_sources are as before.  No two       *)
(* sources rows share a name, a run past registration uses the id of the    *)
(* committed row of its name, and a row the table held before a run is      *)
(* kept, so every run on a name uses the same id.                           *)
(***************************************************************************)
C7_SourceRegisteredOnce ==
    /\ [](/\ \A r1, r2 \in db.sources : r1.file_name = r2.file_name => r1 = r2
          /\ db0.sources \subseteq db.sources
          /\ pc \in {"open", "loop", "done"} =>
                [id |-> source_id, file_name |-> name] \in db.sources)
    /\ [][pc = "register" /\ pc' = "open" =>
            /\ [id |-> source_id', file_name |-> name] \in db'.sources
            /\ tx' = db'
            /\ db'.words = db.words
            /\ db'.word_sources = db.word_sources
            /\ \A r \in db.sources : r.file_name = name => r.id = source_id']_vars

\* A completed run that repeats a completed run on the first of two
\* registered sources, again under id 1.
C7_Witness ==
    /\ pc = "done"
    /\ rerunOf = "done"
    /\ Cardinality(db.sources) = 2
    /\ source_id = 1

(***************************************************************************)
(* C8.  A step of the loop counts a line as skipped only when the word      *)
(* insert hit the uniqueness constraint, that is when words already holds   *)
(* the word; an integrity failure of the word_sources insert ends the run   *)
(* with an error instead.                                                   *)
(***************************************************************************)
C8_OnlyDuplicateWordSkipped ==
    [][(pc = "loop" /\ skipped' = skipped + 1) =>
          WordsUniqueViolated(tx, Strip(file[idx]))]_vars

(***************************************************************************)
(* C9.  When import_words has ended, on whatever path, neither the sqlite   *)
(* connection nor the source file handle is still open.                     *)
(***************************************************************************)
C9_ResourcesReleased ==
    pc \in Ended => (conn # "open" /\ fh # "open")

C11_WindowBelowBatch ==
    (pc = "error" /\ rerunOf # "error") =>
        inserted - Cardinality(db.words \ db0.words) < BatchSize

(***************************************************************************)
(* C11, amended.  The loop commits whenever total reaches a multiple of     *)
(* the batch size, and the end of the file commits what is left.  Between   *)
(* two lines the pending writes come from fewer than batch-size counted     *)
(* lines (at most total modulo the batch size); until the commit of a       *)
(* checkpoint returns they come from batch-size lines.  An exception that   *)
(* ends the run leaves the committed store as it was and drops the pending  *)
(* writes: of the words the run inserted, at most batch-size are missing    *)
(* from the store, and fewer unless the checkpoint commit itself failed.    *)
(***************************************************************************)
PendingWords == tx.words \ db.words

C11_CheckpointCommits ==
    /\ [](pc = "loop" =>
            /\ Cardinality(PendingWords) <= total % BatchSize
            /\ Cardinality(tx.word_sources \ db.word_sources) <= total % BatchSize
            /\ db.words \subseteq tx.words
            /\ db.word_sources \subseteq tx.word_sources
            /\ db.sources = tx.sources)
    /\ [](pc = "done" => db = tx)
    /\ []((pc = "error" /\ rerunOf # "error") =>
            /\ inserted - Cardinality(db.words \ db0.words) \in 0..BatchSize
            /\ inserted - Cardinality(db.words \ db0.words) = BatchSize
                  => (total % BatchSize = 0 /\ total > 0)
            /\ tx = db)
    /\ [][(pc = "loop" /\ pc' = "loop" /\ total' # total /\ total' % BatchSize = 0)
            => db' = tx']_vars
    /\ [][(pc = "loop" /\ pc' = "done") => (db' = tx /\ tx' = tx)]_vars
    /\ [][(pc # "error" /\ pc' = "error") => (db' = db /\ tx' = db)]_vars

\* A run committed a word at a checkpoint, inserted another after it and was
\* aborted: the first is in the store, the second is lost.
C11_Witness ==
    /\ pc = "error"
    /\ rerunOf = "none"
    /\ db.words # db0.words
    /\ inserted > Cardinality(db.words \ db0.words)

(***************************************************************************)
(* Vocabulary of the mapper's properties: the value the mapping table       *)
(* gives a character, the character itself if the table lacks it, and the   *)
(* concatenation of these values over a string, in the order of the string. *)
(***************************************************************************)
Piece(c) == IF \E k \in DOMAIN CYR_TO_LAT : k = c THEN CYR_TO_LAT[c] ELSE <<c>>

RECURSIVE RefLatin(_)
RefLatin(s) ==
    IF Len(s) = 0 THEN <<>>
    ELSE RefLatin(SubSeq(s, 1, Len(s) - 1)) \o Piece(s[Len(s)])

\* The lines of a file that are not empty once trimmed.
CountedLines(f) == { i \in 1..Len(f) : Strip(f[i]) # <<>> }

\* The words a words table holds.
CyrOf(rows) == { r.sr_cirilica : r \in rows }

(***************************************************************************)
(* C12.  A completed run reports as total the number of lines that are not  *)
(* empty once trimmed, as inserted the number of distinct trimmed words of  *)
(* the file the store did not hold before the run, and as skipped the       *)
(* other counted lines.  The store then holds what it held and, for each   *)
(* such new word, one row, whose sr_latinica is the transliteration of its  *)
(* sr_cirilica.                                                             *)
(***************************************************************************)
C12_CompletedRunCounts ==
    (pc = "done" /\ rerunOf # "error") =>
        LET new == FileWords(file) \ CyrOf(db0.words)
        IN  /\ total = Cardinality(CountedLines(file))
            /\ inserted = Cardinality(new)
            /\ skipped = total - inserted
            /\ Summary \in Summaries
            /\ CyrOf(db.words) = CyrOf(db0.words) \cup new
            /\ Cardinality(db.words) = Cardinality(db0.words) + Cardinality(new)
            /\ \A r \in db.words : r.sr_latinica = RefLatin(r.sr_cirilica)

\* On an empty store a file of a word, an empty line and the word again
\* gave total 2, inserted 1, skipped 1 and the one row of the word.
C12_Witness ==
    /\ pc = "done"
    /\ db0.words = {}
    /\ Len(file) = 3
    /\ Strip(file[2]) = <<>>
    /\ total = 2
    /\ inserted = 1
    /\ skipped = 1
    /\ db.words = {[id |-> 1, sr_cirilica |-> <<"c:lj", "c:a">>,
                    sr_latinica |-> <<"l", "j", "a">>]}

(***************************************************************************)
(* C13.  What a mapper returns for a word is the concatenation, in the      *)
(* order of the word, of the table's value for each character the table     *)
(* has and of the character itself for each character it lacks; this holds  *)
(* of transliterate_to_latin and of cirilic_to_latin alike.  Hence a        *)
(* character outside the table maps to itself, the empty word to the empty  *)
(* word, and the result is never shorter than the word: it is longer by one *)
(* for each lje, nje, dzhe of the word, lowercase or uppercase, which map   *)
(* to lj, nj, dz^, Lj, Nj, Dz^, and these letters only.                     *)
(***************************************************************************)
Lengthening ==
    ( "c:lj" :> <<"l", "j">> @@ "c:nj" :> <<"n", "j">> @@
      "c:dz^" :> <<"d", "z^">> @@ "c:LJ" :> <<"L", "j">> @@
      "c:NJ" :> <<"N", "j">> @@ "c:DZ^" :> <<"D", "z^">> )

C13_MapperConcatenates ==
    /\ m_pc = "loop" =>
          LET done == SubSeq(m_word, 1, m_pos - 1)
          IN  IF m_fn = "transliterate_to_latin"
              THEN /\ Len(m_result) = Len(done)
                   /\ \A i \in 1..Len(done) : m_result[i] = Piece(done[i])
              ELSE m_result = RefLatin(done)
    /\ m_pc = "returned" =>
          /\ m_ret = RefLatin(m_word)
          /\ m_ret = transliterate_to_latin(m_word)
          /\ m_word = <<>> => m_ret = <<>>
          /\ \A c \in OutsideChars : m_word = <<c>> => m_ret = <<c>>
          /\ Len(m_ret) >= Len(m_word)
          /\ Len(m_ret) = Len(m_word) + Cardinality(
                 { i \in 1..Len(m_word) : m_word[i] \in DOMAIN Lengthening })
          /\ \A c \in DOMAIN Lengthening : m_word = <<c>> => m_ret = Lengthening[c]
          /\ (Len(m_word) = 1 /\ m_word[1] \notin DOMAIN Lengthening)
                => Len(m_ret) = 1

\* transliterate_to_latin returned lj, x, Dz^ for the word lje, x, dzhe
\* (uppercase): two letters lengthened, a character outside the table kept.
C13_Witness ==
    /\ m_pc = "returned"
    /\ m_fn = "transliterate_to_latin"
    /\ m_word = <<"c:lj", "x", "c:DZ^">>
    /\ m_ret = <<"l", "j", "x", "D", "z^">>

====
